---- MODULE Spec2Model ----
(***************************************************************************)
(* A model of the Option container of src/src/Option.ts (classes Option,   *)
(* Some, None and OptionError) and of the helpers some/none of             *)
(* src/src/index.ts.                                                       *)
(*                                                                         *)
(* Objects live in a heap (a sequence); the identity of an Option is its   *)
(* index in the heap, so "the same instance" is equality of indices and a  *)
(* "new instance" is an index that the heap did not have before the call.  *)
(* Every method is an operator from a machine state m (heap, log of the    *)
(* caller-supplied functions invoked so far, result) to a machine state.   *)
(***************************************************************************)
EXTENDS Naturals, Sequences, FiniteSets

VARIABLES heap, last

vars == <<heap, last>>

\* ------------------------------------------------------------------ bounds
\* The largest number of Option instances alive at once.
MaxObjs == 3

\* ------------------------------------------------------------------ values
\* JavaScript values: undefined, null, numbers, booleans, references to Options.
Undefined == [t |-> "undefined", n |-> 0]
Null == [t |-> "null", n |-> 0]
Num(k) == [t |-> "number", n |-> k]
Bool(b) == [t |-> "boolean", n |-> IF b THEN 1 ELSE 0]
Ref(i) == [t |-> "ref", n |-> i]

Prim == {Undefined, Null, Num(0)}
Refs(h) == {Ref(i) : i \in 1..Len(h)}
Val(h) == Prim \cup Refs(h)

\* ------------------------------------------------------------------ errors
illegalUnwrap == "tried to unwrap on None"
illegalInstantiation == "Option must be an instance of Some or None"

\* ------------------------------------------------------------------ machine
Start(h) ==
  [heap |-> h, log |-> <<>>, res |-> [kind |-> "return", val |-> Undefined, err |-> ""]]
Return(m, v) == [m EXCEPT !.res = [kind |-> "return", val |-> v, err |-> ""]]
Throw(m, e) == [m EXCEPT !.res = [kind |-> "throw", val |-> Undefined, err |-> e]]
Thrown(m) == m.res.kind = "throw"

\* ------------------------------------------------------------------ Option
\* Mutant: the variant decided by the held value (this._value != null).
isSome_byValue(m, self) ==
  m.heap[self].value # Undefined /\ m.heap[self].value # Null

isSome(m, self) == m.heap[self].cls = "Some"

isNone(m, self) == m.heap[self].cls = "None"

\* new cls(value): the object exists (with its class, fields unset) while the
\* constructor runs; a constructor that throws leaves no instance behind.
\* Mutant: the constructor without its instance check.
constructor_unchecked(m, cls, value) ==
  Return([m EXCEPT !.heap = Append(m.heap, [cls |-> cls, value |-> value])],
         Ref(Len(m.heap) + 1))

constructor(m, cls, value) ==
  LET this == Len(m.heap) + 1
      m1 == [m EXCEPT !.heap = Append(m.heap, [cls |-> cls, value |-> Undefined])]
  IN IF ~isSome(m1, this) /\ ~isNone(m1, this)
       THEN Throw(m, illegalInstantiation)
       ELSE Return([m1 EXCEPT !.heap[this].value = value], Ref(this))

NewSome(m, value) == constructor(m, "Some", value)

NewNone(m) == constructor(m, "None", Undefined)

NewOption(m, value) == constructor(m, "Option", value)

Option_default(m) == NewNone(m)

some(m, value) == NewSome(m, value)

none(m) == NewNone(m)

\* Mutant: unwrap hands back the stored field whatever the variant.
unwrap_unchecked(m, self) == Return(m, m.heap[self].value)

unwrap(m, self) ==
  IF isSome(m, self)
    THEN Return(m, m.heap[self].value)
    ELSE Throw(m, illegalUnwrap)

\* Mutant: unwrapOr "moves" the value out, clearing the receiver's field.
unwrapOr_moves(m, self, fallback) ==
  IF isSome(m, self)
    THEN Return([m EXCEPT !.heap[self].value = Undefined], m.heap[self].value)
    ELSE Return(m, fallback)

unwrapOr(m, self, fallback) ==
  IF isSome(m, self)
    THEN unwrap(m, self)
    ELSE Return(m, fallback)

\* ------------------------------------------------------------------ callbacks
\* The functions a caller supplies, as data: [k |-> kind, v |-> captured value].
\*   id        x => x                      const     x => v
\*   eq        x => x === v                wrap      x => new Some(x)
\*   constNone x => new None()             thunk     () => v
\*   thunkSome () => new Some(v)           thunkNone () => new None()
\* Every invocation is appended to the log with the argument it received.
Cb(k, v) == [k |-> k, v |-> v]
NoCb == Cb("none", Undefined)

CallUser(cb, m, x) ==
  LET m1 == [m EXCEPT !.log = Append(m.log, [cb |-> cb, arg |-> x])]
  IN CASE cb.k = "id" -> Return(m1, x)
       [] cb.k = "const" -> Return(m1, cb.v)
       [] cb.k = "eq" -> Return(m1, Bool(x = cb.v))
       [] cb.k = "wrap" -> NewSome(m1, x)
       [] cb.k = "constNone" -> NewNone(m1)
       [] cb.k = "thunk" -> Return(m1, cb.v)
       [] cb.k = "thunkSome" -> NewSome(m1, cb.v)
       [] cb.k = "thunkNone" -> NewNone(m1)

\* Mutant: val instanceof Option.
instanceofOption(m, val) == val.t = "ref"

\* val instanceof Some
instanceofSome(m, val) == val.t = "ref" /\ m.heap[val.n].cls = "Some"

\* Mutant: a passing filter wraps the value again instead of returning this.
filterArrow_copy(m, this, op, val) ==
  LET r == CallUser(op, m, val)
  IN IF Thrown(r) THEN r
     ELSE IF r.res.val = Bool(TRUE) THEN NewSome(r, val) ELSE NewNone(r)

\* (val: T): Option<T> => op(val) ? this : new None<T>()
filterArrow(m, this, op, val) ==
  LET r == CallUser(op, m, val)
  IN IF Thrown(r) THEN r
     ELSE IF r.res.val = Bool(TRUE) THEN Return(r, Ref(this)) ELSE NewNone(r)

\* () => new None<T>()
flattenFallback(m) == NewNone(m)

\* (val: T): Option<T> => val instanceof Some ? val : this
flattenOp(m, this, val) ==
  IF instanceofSome(m, val) THEN Return(m, val) ELSE Return(m, Ref(this))

\* A call op(x) of a function value: a caller's function or one of the arrow
\* functions that filter and flatten build.
Invoke(cb, m, x) ==
  CASE cb.k = "filterArrow" -> filterArrow(m, cb.this, cb.op, x)
    [] cb.k = "flattenFallback" -> flattenFallback(m)
    [] cb.k = "flattenOp" -> flattenOp(m, cb.this, x)
    [] OTHER -> CallUser(cb, m, x)

\* ------------------------------------------------------------------ methods
unwrapOrElse(m, self, op) ==
  IF isSome(m, self)
    THEN unwrap(m, self)
    ELSE Invoke(op, m, Undefined)

\* Mutant: map reuses the receiver when nothing would change.
map_reuse(m, self, op) ==
  IF isSome(m, self)
    THEN LET r == Invoke(op, m, m.heap[self].value)
         IN IF r.res.val = m.heap[self].value
              THEN Return(r, Ref(self))
              ELSE NewSome(r, r.res.val)
    ELSE Return(m, Ref(self))

map(m, self, op) ==
  IF isSome(m, self)
    THEN LET u == unwrap(m, self)
         IN IF Thrown(u) THEN u
            ELSE LET r == Invoke(op, u, u.res.val)
                 IN IF Thrown(r) THEN r ELSE NewSome(r, r.res.val)
    ELSE NewNone(m)

mapOr(m, self, fallback, op) ==
  IF isSome(m, self)
    THEN LET u == unwrap(m, self)
         IN IF Thrown(u) THEN u ELSE Invoke(op, u, u.res.val)
    ELSE Return(m, fallback)

\* Mutant: the fallback is computed up front.
mapOrElse_eager(m, self, fallback, op) ==
  LET d == Invoke(fallback, m, Undefined)
  IN IF isSome(d, self)
       THEN Invoke(op, d, d.heap[self].value)
       ELSE d

mapOrElse(m, self, fallback, op) ==
  IF isSome(m, self)
    THEN LET u == unwrap(m, self)
         IN IF Thrown(u) THEN u ELSE Invoke(op, u, u.res.val)
    ELSE Invoke(fallback, m, Undefined)

\* Mutant: and on a None returns the receiver instead of a new None.
and_reuse(m, self, optb) ==
  IF isSome(m, self)
    THEN Return(m, Ref(optb))
    ELSE Return(m, Ref(self))

and(m, self, optb) ==
  IF isSome(m, self)
    THEN Return(m, Ref(optb))
    ELSE NewNone(m)

andThen(m, self, op) ==
  IF isSome(m, self)
    THEN LET u == unwrap(m, self)
         IN IF Thrown(u) THEN u ELSE Invoke(op, u, u.res.val)
    ELSE NewNone(m)

filter(m, self, op) ==
  andThen(m, self, [k |-> "filterArrow", op |-> op, this |-> self])

or(m, self, optb) ==
  IF isSome(m, self)
    THEN Return(m, Ref(self))
    ELSE Return(m, Ref(optb))

orElse(m, self, op) ==
  IF isSome(m, self)
    THEN Return(m, Ref(self))
    ELSE Invoke(op, m, Undefined)

\* Mutant: xor without the both-Some case (it behaves as or).
xor_asOr(m, self, optb) ==
  IF isSome(m, self)
    THEN Return(m, Ref(self))
    ELSE IF isSome(m, optb) THEN Return(m, Ref(optb)) ELSE NewNone(m)

xor(m, self, optb) ==
  IF isSome(m, self)
    THEN IF isSome(m, optb) THEN NewNone(m) ELSE Return(m, Ref(self))
    ELSE IF isSome(m, optb) THEN Return(m, Ref(optb)) ELSE NewNone(m)

flatten(m, self) ==
  mapOrElse(m, self,
            [k |-> "flattenFallback", this |-> self],
            [k |-> "flattenOp", this |-> self])

\* ------------------------------------------------------------------ inputs
\* The functions the operations are exercised with.
Fallbacks == {Num(0)}
ValueFns == {Cb("id", Undefined), Cb("const", Null)}
Thunks == {Cb("thunk", v) : v \in Fallbacks}
Preds == {Cb("eq", v) : v \in Prim}
OptionFns(h) == {Cb("wrap", Undefined), Cb("constNone", Undefined)}
                  \cup {Cb("const", r) : r \in Refs(h)}
OptionThunks(h) == {Cb("thunkSome", Num(0)), Cb("thunkNone", Undefined)}
                     \cup {Cb("thunk", r) : r \in Refs(h)}

Objs == 1..Len(heap)

\* ------------------------------------------------------------------ state machine
\* last: the most recent call (its name, receiver, arguments), the heap it
\* started from, its result and the caller's functions it invoked.
Record(op, self, arg, cb1, cb2, m) ==
  /\ Len(m.heap) <= MaxObjs
  /\ heap' = m.heap
  /\ last' = [op |-> op, self |-> self, arg |-> arg, cb1 |-> cb1, cb2 |-> cb2,
              pre |-> heap, res |-> m.res, log |-> m.log]

Init ==
  /\ heap = <<>>
  /\ last = [op |-> "init", self |-> 0, arg |-> Undefined, cb1 |-> NoCb, cb2 |-> NoCb,
             pre |-> <<>>, res |-> Start(<<>>).res, log |-> <<>>]

ConstructOption ==
  \E v \in Val(heap) : Record("new Option", 0, v, NoCb, NoCb, NewOption(Start(heap), v))

ConstructSome ==
  \E v \in Val(heap) : Record("new Some", 0, v, NoCb, NoCb, NewSome(Start(heap), v))

ConstructNone == Record("new None", 0, Undefined, NoCb, NoCb, NewNone(Start(heap)))

CallDefault == Record("default", 0, Undefined, NoCb, NoCb, Option_default(Start(heap)))

CallSome ==
  \E v \in Val(heap) : Record("some", 0, v, NoCb, NoCb, some(Start(heap), v))

CallNone == Record("none", 0, Undefined, NoCb, NoCb, none(Start(heap)))

CallIsSome ==
  \E o \in Objs :
    Record("isSome", o, Undefined, NoCb, NoCb,
           Return(Start(heap), Bool(isSome(Start(heap), o))))

CallIsNone ==
  \E o \in Objs :
    Record("isNone", o, Undefined, NoCb, NoCb,
           Return(Start(heap), Bool(isNone(Start(heap), o))))

CallUnwrap ==
  \E o \in Objs : Record("unwrap", o, Undefined, NoCb, NoCb, unwrap(Start(heap), o))

CallUnwrapOr ==
  \E o \in Objs, fb \in Fallbacks :
    Record("unwrapOr", o, fb, NoCb, NoCb, unwrapOr(Start(heap), o, fb))

CallUnwrapOrElse ==
  \E o \in Objs, f \in Thunks :
    Record("unwrapOrElse", o, Undefined, f, NoCb, unwrapOrElse(Start(heap), o, f))

CallMap ==
  \E o \in Objs, f \in ValueFns :
    Record("map", o, Undefined, f, NoCb, map(Start(heap), o, f))

CallMapOr ==
  \E o \in Objs, fb \in Fallbacks, f \in ValueFns :
    Record("mapOr", o, fb, f, NoCb, mapOr(Start(heap), o, fb, f))

CallMapOrElse ==
  \E o \in Objs, fb \in Thunks, f \in ValueFns :
    Record("mapOrElse", o, Undefined, fb, f, mapOrElse(Start(heap), o, fb, f))

CallAnd ==
  \E o \in Objs, b \in Objs :
    Record("and", o, Ref(b), NoCb, NoCb, and(Start(heap), o, b))

CallAndThen ==
  \E o \in Objs, f \in OptionFns(heap) :
    Record("andThen", o, Undefined, f, NoCb, andThen(Start(heap), o, f))

CallFilter ==
  \E o \in Objs, p \in Preds :
    Record("filter", o, Undefined, p, NoCb, filter(Start(heap), o, p))

CallOr ==
  \E o \in Objs, b \in Objs :
    Record("or", o, Ref(b), NoCb, NoCb, or(Start(heap), o, b))

CallOrElse ==
  \E o \in Objs, f \in OptionThunks(heap) :
    Record("orElse", o, Undefined, f, NoCb, orElse(Start(heap), o, f))

CallXor ==
  \E o \in Objs, b \in Objs :
    Record("xor", o, Ref(b), NoCb, NoCb, xor(Start(heap), o, b))

CallFlatten ==
  \E o \in Objs : Record("flatten", o, Undefined, NoCb, NoCb, flatten(Start(heap), o))

Next ==
  \/ ConstructOption
  \/ ConstructSome
  \/ ConstructNone
  \/ CallDefault
  \/ CallSome
  \/ CallNone
  \/ CallIsSome
  \/ CallIsNone
  \/ CallUnwrap
  \/ CallUnwrapOr
  \/ CallUnwrapOrElse
  \/ CallMap
  \/ CallMapOr
  \/ CallMapOrElse
  \/ CallAnd
  \/ CallAndThen
  \/ CallFilter
  \/ CallOr
  \/ CallOrElse
  \/ CallXor
  \/ CallFlatten

Spec == Init /\ [][Next]_vars

\* ------------------------------------------------------------------ vocabulary of the properties
Returned == last.res.kind = "return"
Result == last.res.val
Self == last.self
PreSome(i) == last.pre[i].cls = "Some"
Held == last.pre[Self].value
\* A reference to an instance that did not exist when the call started.
Fresh(v) == v.t = "ref" /\ v.n > Len(last.pre) /\ v.n <= Len(heap)
IsRef(v) == v.t = "ref" /\ v.n \in 1..Len(heap)
ReturnOf(v) == [kind |-> "return", val |-> v, err |-> ""]
ThrowOf(e) == [kind |-> "throw", val |-> Undefined, err |-> e]
Invocation(cb, x) == [cb |-> cb, arg |-> x]

Constructions == {"new Some", "new None", "default", "some", "none"}
Combinators == {"map", "and", "andThen", "filter", "or", "orElse", "xor", "flatten"}
NonFailing ==
  {"isSome", "isNone", "unwrapOr", "unwrapOrElse", "map", "mapOr", "mapOrElse"}
    \cup Combinators

\* ------------------------------------------------------------------ C1
\* C1: unwrap returns the held value of a Some and raises OptionError
\* 'tried to unwrap on None' on a None; every other operation, called with
\* functions that do not fail, completes without raising.
C1_UnwrapIsTheOnlyFailure ==
  /\ last.op = "unwrap" =>
       last.res = IF PreSome(Self) THEN ReturnOf(Held) ELSE ThrowOf(illegalUnwrap)
  /\ last.op \in NonFailing => Returned

C1_Witness == last.op = "unwrap" /\ ~PreSome(Self) /\ last.res = ThrowOf(illegalUnwrap)

\* ------------------------------------------------------------------ C2
\* C2: new Option(v) always fails with OptionError 'Option must be an
\* instance of Some or None' and creates no instance; new Some(v), new None(),
\* Option.default(), some(v) and none() never fail and return a new instance;
\* every instance that exists is a Some or a None.
C2_BaseConstructionFails ==
  /\ last.op = "new Option" =>
       last.res = ThrowOf(illegalInstantiation) /\ heap = last.pre
  /\ last.op \in Constructions =>
       Returned /\ Fresh(Result) /\ Len(heap) = Len(last.pre) + 1
  /\ \A i \in 1..Len(heap) : heap[i].cls \in {"Some", "None"}

C2_Witness ==
  last.op = "new Option" /\ last.arg = Ref(1) /\ last.res = ThrowOf(illegalInstantiation)

\* ------------------------------------------------------------------ C3
\* C3: every instance answers exactly one of isSome() / isNone() with true,
\* and no step changes the variant or the held value of an instance that
\* already exists (receiver and arguments included) nor removes it: after
\* each call the heap the call started from (last.pre) is a prefix of heap.
C3_Immutable ==
  /\ \A i \in 1..Len(heap) : isSome(Start(heap), i) # isNone(Start(heap), i)
  /\ \A i \in 1..Len(last.pre) : i <= Len(heap) /\ heap[i] = last.pre[i]

C3_Witness ==
  /\ last.op = "unwrapOr" /\ PreSome(Self) /\ Held = Num(0)
  /\ Result = Num(0) /\ heap[Self].value = Num(0)

\* ------------------------------------------------------------------ C4
PassThrough ==
  \/ last.op = "and" /\ PreSome(Self) /\ Result = last.arg
  \/ last.op = "or" /\ ~PreSome(Self) /\ Result = last.arg
  \/ last.op = "andThen" /\ PreSome(Self) /\ last.cb1.k = "const" /\ Result = last.cb1.v
  \/ last.op = "orElse" /\ ~PreSome(Self) /\ last.cb1.k = "thunk" /\ Result = last.cb1.v

\* The identity-preserving paths, read generously: or / orElse on a Some and
\* filter with a true predicate return the receiver, xor with exactly one
\* Some returns that operand, flatten of a Some returns the inner Some or,
\* when it holds none, the receiver.
IdentityPath ==
  \/ last.op \in {"or", "orElse"} /\ PreSome(Self) /\ Result = Ref(Self)
  \/ last.op = "filter" /\ PreSome(Self) /\ Held = last.cb1.v /\ Result = Ref(Self)
  \/ /\ last.op = "xor"
     /\ PreSome(Self) # PreSome(last.arg.n)
     /\ Result = IF PreSome(Self) THEN Ref(Self) ELSE last.arg
  \/ /\ last.op = "flatten"
     /\ PreSome(Self)
     /\ Result = IF Held.t = "ref" /\ PreSome(Held.n) THEN Held ELSE Ref(Self)

\* The receiver is not also passed as the argument, and the supplied
\* function builds its result rather than handing back an existing instance.
DistinctOperands ==
  /\ last.arg # Ref(Self)
  /\ last.cb1.v.t # "ref"

\* C4 as stated, its first sentence in the case most favourable to it
\* (DistinctOperands): a combinator's None result is always a new instance,
\* never the receiver and never the argument.
C4_AsStated ==
  (last.op \in Combinators /\ Returned /\ IsRef(Result) /\ DistinctOperands) =>
    (heap[Result.n].cls = "None" => Fresh(Result))

\* C4 amended: a combinator returns a new instance except on the
\* pass-through paths (and on a Some and or on a None return their argument,
\* andThen on a Some and orElse on a None return what the function returned)
\* and the identity-preserving paths (or, orElse on a Some and filter with a
\* true predicate return the receiver, xor with exactly one Some returns that
\* operand, flatten of a Some returns the inner Some or the receiver); a None
\* result that is not new comes from a pass-through path.
C4_Amended ==
  (last.op \in Combinators /\ Returned) =>
    /\ IsRef(Result)
    /\ Fresh(Result) \/ PassThrough \/ IdentityPath
    /\ (heap[Result.n].cls = "None" /\ ~Fresh(Result)) => PassThrough

C4_Witness ==
  /\ last.op = "and" /\ PreSome(Self) /\ last.arg.n # Self
  /\ ~PreSome(last.arg.n) /\ Result = last.arg /\ heap[Result.n].cls = "None"

\* ------------------------------------------------------------------ C5
\* C5: a.xor(b) is a when only a is Some, b when only b is Some, and a new
\* None, neither a nor b, when both or neither are Some; so the result is a
\* Some iff exactly one operand is.
C5_Xor ==
  last.op = "xor" =>
    LET a == Self
        b == last.arg.n
    IN /\ Returned /\ IsRef(Result)
       /\ (PreSome(a) /\ ~PreSome(b)) => Result = Ref(a)
       /\ (~PreSome(a) /\ PreSome(b)) => Result = Ref(b)
       /\ (PreSome(a) = PreSome(b)) =>
            /\ Fresh(Result) /\ Result.n # a /\ Result.n # b
            /\ heap[Result.n].cls = "None"
       /\ (heap[Result.n].cls = "Some") = (PreSome(a) # PreSome(b))

C5_Witness ==
  /\ last.op = "xor" /\ Self # last.arg.n /\ PreSome(Self) /\ PreSome(last.arg.n)
  /\ Fresh(Result)

\* ------------------------------------------------------------------ C6
\* C6: flatten of a Some holding a Some is that inner instance; flatten of a
\* Some holding anything else (a None included) is the receiver, still a Some;
\* flatten of a None is a new None.
C6_Flatten ==
  last.op = "flatten" =>
    /\ Returned /\ IsRef(Result)
    /\ PreSome(Self) =>
         IF Held.t = "ref" /\ PreSome(Held.n)
           THEN Result = Held
           ELSE Result = Ref(Self) /\ heap[Self].cls = "Some"
    /\ ~PreSome(Self) =>
         Fresh(Result) /\ Result.n # Self /\ heap[Result.n].cls = "None"

C6_Witness ==
  /\ last.op = "flatten" /\ PreSome(Self) /\ Held.t = "ref" /\ ~PreSome(Held.n)
  /\ Result = Ref(Self)

\* ------------------------------------------------------------------ C7
\* C7: o.filter(p) is o itself when o is Some(v) and p(v) holds; a new None
\* distinct from o when p(v) fails or o is a None; and it is what
\* o.andThen(v => p(v) ? o : new None()) gives.
C7_Filter ==
  last.op = "filter" =>
    LET viaAndThen ==
          andThen(Start(last.pre), Self,
                  [k |-> "filterArrow", op |-> last.cb1, this |-> Self])
    IN /\ Returned /\ IsRef(Result)
       /\ (PreSome(Self) /\ Held = last.cb1.v) => Result = Ref(Self)
       /\ (~PreSome(Self) \/ Held # last.cb1.v) =>
            Fresh(Result) /\ Result.n # Self /\ heap[Result.n].cls = "None"
       /\ heap = viaAndThen.heap /\ last.res = viaAndThen.res

C7_Witness ==
  /\ last.op = "filter" /\ PreSome(Self) /\ Held # last.cb1.v
  /\ Fresh(Result) /\ Len(last.log) = 1

\* ------------------------------------------------------------------ C8
\* C8: the Absent-side function (unwrapOrElse, orElse, mapOrElse's fallback)
\* is invoked exactly once on a None and never on a Some; the Present-side
\* function (map, mapOr, mapOrElse, andThen, filter) exactly once, with the
\* held value, on a Some and never on a None; mapOrElse invokes exactly one.
C8_LazyCallbacks ==
  /\ last.op \in {"unwrapOrElse", "orElse"} =>
       last.log = IF PreSome(Self) THEN <<>> ELSE <<Invocation(last.cb1, Undefined)>>
  /\ last.op \in {"map", "mapOr", "andThen", "filter"} =>
       last.log = IF PreSome(Self) THEN <<Invocation(last.cb1, Held)>> ELSE <<>>
  /\ last.op = "mapOrElse" =>
       last.log = IF PreSome(Self) THEN <<Invocation(last.cb2, Held)>>
                                   ELSE <<Invocation(last.cb1, Undefined)>>

C8_Witness ==
  last.op = "mapOrElse" /\ PreSome(Self) /\ last.log = <<Invocation(last.cb2, Held)>>

\* ------------------------------------------------------------------ C9
AbsentLike == {Undefined, Null}

\* C9: some(undefined) and some(null) are Somes: isSome() is true, isNone()
\* false, unwrap() and unwrapOr(fb) return the value, map invokes its
\* function; and a None, which stores undefined, is not a Some(undefined).
C9_SomeOfAbsentLike ==
  /\ (last.op = "some" /\ last.arg \in AbsentLike) =>
       /\ Returned /\ Fresh(Result)
       /\ isSome(Start(heap), Result.n) /\ ~isNone(Start(heap), Result.n)
       /\ heap[Result.n].value = last.arg
  /\ (Self \in 1..Len(last.pre) /\ PreSome(Self) /\ Held \in AbsentLike) =>
       /\ last.op = "isSome" => last.res = ReturnOf(Bool(TRUE))
       /\ last.op = "isNone" => last.res = ReturnOf(Bool(FALSE))
       /\ last.op \in {"unwrap", "unwrapOr"} => last.res = ReturnOf(Held)
       /\ last.op = "map" => last.log = <<Invocation(last.cb1, Held)>>
  /\ \A i \in 1..Len(heap) :
       heap[i].cls = "None" =>
         /\ heap[i].value = Undefined
         /\ ~isSome(Start(heap), i) /\ isNone(Start(heap), i)
  /\ \A i \in 1..Len(heap) :
       (heap[i].cls = "Some" /\ heap[i].value = Undefined) =>
         isSome(Start(heap), i) /\ ~isNone(Start(heap), i)

C9_Witness ==
  /\ last.op = "unwrapOr" /\ PreSome(Self) /\ Held = Undefined
  /\ last.arg = Num(0) /\ last.res = ReturnOf(Undefined)

\* ------------------------------------------------------------------ C10
\* What the function f of a map call returns for x.
Applied(f, x) == IF f.k = "id" THEN x ELSE f.v

\* C10: o.map(f) is always a new instance distinct from o: a Some holding
\* f(v) when o is Some(v), a None when o is a None.
C10_Map ==
  last.op = "map" =>
    /\ Returned /\ Fresh(Result) /\ Result.n # Self
    /\ heap[Result.n] =
         IF PreSome(Self)
           THEN [cls |-> "Some", value |-> Applied(last.cb1, Held)]
           ELSE [cls |-> "None", value |-> Undefined]

C10_Witness ==
  /\ last.op = "map" /\ PreSome(Self) /\ last.cb1.k = "id"
  /\ heap[Result.n] = last.pre[Self] /\ Result.n # Self

====
